---- MODULE Spec2Model ----
(***************************************************************************)
(* Model of bustd's src/utils.rs: the OS-query helpers                     *)
(* (get_process_group, page_size, get_username) and the data helpers       *)
(* (str_from_u8, file_from_buffer, bytes_to_megabytes).                    *)
(*                                                                         *)
(* The caller runs one helper at a time (`active`); get_process_group is   *)
(* also run by several threads at once, each with its own errno slot.      *)
(* Everything the OS decides (return values, error codes, the user         *)
(* database, the file system) is drawn nondeterministically.               *)
(***************************************************************************)
EXTENDS Integers, Sequences, FiniteSets

VARIABLES
    active,         \* which helper the caller is running: "none" or its name
    \* ---- get_process_group, per thread
    pg_pc,          \* "idle" | "entered" | "looked" | "done"
    pg_pid,         \* the pid argument
    pg_pgid,        \* the local `pgid` (what getpgid returned)
    errno,          \* the thread's errno slot
    pg_ret,         \* the Result<i32> returned
    pg_own_errno,   \* history: the code the thread's own lookup set (or None)
    \* ---- str_from_u8
    str_pc,         \* "idle" | "called" | "done"
    str_buf,        \* the buffer argument
    str_written,    \* history: the string written into the buffer, or NotWritten
    str_ret,        \* the Result<&str> returned
    \* ---- file_from_buffer
    file_pc,        \* "idle" | "called" | "opening" | "done"
    file_buf,       \* the buffer argument
    file_path,      \* the local `path`
    file_ret,       \* the Result<File> returned
    fs,             \* the file system: path -> "file" | "denied"; other paths are absent
    file_opens,     \* history: the paths File::open was called with
    \* ---- bytes_to_megabytes
    mb_pc,          \* "idle" | "called" | "done"
    mb_bytes,       \* the `bytes` argument, little-endian, in its own width
    mb_unit,        \* the `mem_unit` argument, little-endian, in its own width
    mb_checks,      \* whether the build has overflow checks (debug) or not (release)
    mb_ret,         \* the outcome: a u64, or the overflow panic
    \* ---- get_username
    user_pc,        \* "idle" | "called" | "queried" | "done"
    user_db,        \* the user database's answer for the effective uid
    user_code,      \* the local `getpwuid_r_code`
    user_result,    \* the local `result`: "null" or "passwd"
    user_pw_name,   \* passwd.pw_name: "null" or the bytes it points at
    user_ret,       \* the Option<String> returned
    user_reads,     \* history: the pw_name pointers that were dereferenced
    \* ---- page_size
    page_pc,        \* "idle" | "called" | "queried" | "done"
    page_width,     \* size of the platform's c_long in bytes
    page_size_raw,  \* the local `page_size` (what sysconf returned), little-endian
    page_ret,       \* the Result<i64> returned
    page_prev       \* history: the previous call's OS answer and result

pgVars   == <<pg_pc, pg_pid, pg_pgid, errno, pg_ret, pg_own_errno>>
strVars  == <<str_pc, str_buf, str_written, str_ret>>
fileVars == <<file_pc, file_buf, file_path, file_ret, fs, file_opens>>
mbVars   == <<mb_pc, mb_bytes, mb_unit, mb_checks, mb_ret>>
userVars == <<user_pc, user_db, user_code, user_result, user_pw_name, user_ret, user_reads>>
pageVars == <<page_pc, page_width, page_size_raw, page_ret, page_prev>>
vars     == <<active, pgVars, strVars, fileVars, mbVars, userVars, pageVars>>

(***************************************************************************)
(* Bounds of the model.                                                    *)
(***************************************************************************)
NThreads == 2       \* threads calling get_process_group at once
MaxLen   == 3       \* longest byte buffer handed to str_from_u8 / file_from_buffer
MaxName  == 2       \* longest login name in the user database

Threads == 1..NThreads

(***************************************************************************)
(* Results.  Ok(v), Err(e), Some(v), None; NoRet before the helper returns.*)
(***************************************************************************)
NoRet     == [tag |-> "NoRet"]
Ok(v)     == [tag |-> "Ok", val |-> v]
Err(e)    == [tag |-> "Err", err |-> e]
\* A variant of the crate's Error enum that carries no data.
Error(k)  == [kind |-> k]
Some(v)   == [tag |-> "Some", val |-> v]
None      == [tag |-> "None"]

(***************************************************************************)
(* get_process_group                                                       *)
(***************************************************************************)
EPERM  == 1
ESRCH  == 3
EINVAL == 22

\* Codes the OS may leave in errno; 4 (EINTR) and 0 stand for every code
\* that is none of the three named ones.
ErrnoVals == {0, EPERM, ESRCH, 4, EINVAL}
\* What getpgid may return: the sentinel, another negative, a group id.
PgidVals  == {-2, -1, 42}
PidVals   == {-1, 42}

\* errno(): the calling thread's error-code slot.
errno_read(t) == errno[t]

\* match errno() { EPERM => .., ESRCH => .., EINVAL => .., _ => .. }
ErrorKindOf_Swapped(e) ==
    CASE e = EPERM  -> Error("ProcessGroupNotFound")
      [] e = ESRCH  -> Error("NoPermission")
      [] e = EINVAL -> Error("InvalidPidSupplied")
      [] OTHER      -> Error("UnknownGetpguid")

ErrorKindOf(e) ==
    CASE e = EPERM  -> Error("NoPermission")
      [] e = ESRCH  -> Error("ProcessGroupNotFound")
      [] e = EINVAL -> Error("InvalidPidSupplied")
      [] OTHER      -> Error("UnknownGetpguid")

\* if pgid == -1
IsSentinel(v) == v = -1

\* A thread enters get_process_group(pid).
PgCall(t) ==
    /\ active \in {"none", "get_process_group"}
    /\ pg_pc[t] = "idle"
    /\ \E pid \in PidVals : pg_pid' = [pg_pid EXCEPT ![t] = pid]
    /\ pg_pc' = [pg_pc EXCEPT ![t] = "entered"]
    /\ active' = "get_process_group"
    /\ UNCHANGED <<pg_pgid, errno, pg_ret, pg_own_errno>>
    /\ UNCHANGED <<strVars, fileVars, mbVars, userVars, pageVars>>

\* let pgid = unsafe { getpgid(pid) };  the OS answers with any value; with
\* the sentinel it stores a code in the calling thread's errno, otherwise it
\* leaves errno as it was.
PgLookup(t) ==
    /\ pg_pc[t] = "entered"
    /\ \E v \in PgidVals :
         /\ pg_pgid' = [pg_pgid EXCEPT ![t] = v]
         /\ IF v = -1
              THEN \E e \in ErrnoVals :
                     /\ errno' = [errno EXCEPT ![t] = e]
                     /\ pg_own_errno' = [pg_own_errno EXCEPT ![t] = Some(e)]
              ELSE /\ errno' = errno
                   /\ pg_own_errno' = [pg_own_errno EXCEPT ![t] = None]
    /\ pg_pc' = [pg_pc EXCEPT ![t] = "looked"]
    /\ UNCHANGED <<active, pg_pid, pg_ret>>
    /\ UNCHANGED <<strVars, fileVars, mbVars, userVars, pageVars>>

\* A variant that talks to the OS once more before reading errno: the extra
\* call leaves its own code in the thread's slot.
PgReturn_AfterOtherCall(t) ==
    /\ pg_pc[t] = "looked"
    /\ \E e \in ErrnoVals :
         /\ errno' = [errno EXCEPT ![t] = e]
         /\ pg_ret' = [pg_ret EXCEPT ![t] =
                         IF IsSentinel(pg_pgid[t]) THEN Err(ErrorKindOf(e))
                                                   ELSE Ok(pg_pgid[t])]
    /\ pg_pc' = [pg_pc EXCEPT ![t] = "done"]
    /\ UNCHANGED <<active, pg_pid, pg_pgid, pg_own_errno>>
    /\ UNCHANGED <<strVars, fileVars, mbVars, userVars, pageVars>>

\* if pgid == -1 { return Err(match errno() {..}) }  Ok(pgid)
PgReturn(t) ==
    /\ pg_pc[t] = "looked"
    /\ pg_ret' = [pg_ret EXCEPT ![t] =
                    IF IsSentinel(pg_pgid[t]) THEN Err(ErrorKindOf(errno_read(t)))
                                              ELSE Ok(pg_pgid[t])]
    /\ pg_pc' = [pg_pc EXCEPT ![t] = "done"]
    /\ UNCHANGED <<active, pg_pid, pg_pgid, errno, pg_own_errno>>
    /\ UNCHANGED <<strVars, fileVars, mbVars, userVars, pageVars>>

\* The caller takes the result; the thread's errno slot keeps its last code.
PgTake(t) ==
    /\ pg_pc[t] = "done"
    /\ pg_pc' = [pg_pc EXCEPT ![t] = "idle"]
    /\ pg_pid' = [pg_pid EXCEPT ![t] = 0]
    /\ pg_pgid' = [pg_pgid EXCEPT ![t] = 0]
    /\ pg_ret' = [pg_ret EXCEPT ![t] = NoRet]
    /\ pg_own_errno' = [pg_own_errno EXCEPT ![t] = None]
    /\ UNCHANGED <<active, errno>>
    /\ UNCHANGED <<strVars, fileVars, mbVars, userVars, pageVars>>

\* The caller joins the threads; threads started later have fresh errno slots.
PgJoin ==
    /\ active = "get_process_group"
    /\ \A t \in Threads : pg_pc[t] = "idle"
    /\ active' = "none"
    /\ errno' = [t \in Threads |-> 0]
    /\ UNCHANGED <<pg_pc, pg_pid, pg_pgid, pg_ret, pg_own_errno>>
    /\ UNCHANGED <<strVars, fileVars, mbVars, userVars, pageVars>>

PgInit ==
    /\ pg_pc = [t \in Threads |-> "idle"]
    /\ pg_pid = [t \in Threads |-> 0]
    /\ pg_pgid = [t \in Threads |-> 0]
    /\ errno = [t \in Threads |-> 0]
    /\ pg_ret = [t \in Threads |-> NoRet]
    /\ pg_own_errno = [t \in Threads |-> None]

(***************************************************************************)
(* Bytes and UTF-8 (what str::from_utf8 and String::from_utf8_lossy do).   *)
(***************************************************************************)
\* The byte values buffers are built from: NUL, 'A', a continuation byte
\* (0xA9), a 2-byte lead (0xC3), a 3-byte lead (0xE2), a byte that is never
\* valid (0xFF).  "A", 0xC3 0xA9 and 0xE2 0xA9 0xA9 are whole characters.
ByteVals == {0, 65, 169, 195, 226, 255}

SeqsOfLen(S, n) == [1..n -> S]
SeqsUpTo(S, n)  == UNION {SeqsOfLen(S, k) : k \in 0..n}

\* utf8_char_width: the length a lead byte announces, 0 for a byte that
\* cannot start a character.
Utf8CharWidth(b) ==
    CASE b < 128          -> 1
      [] b \in 194..223   -> 2
      [] b \in 224..239   -> 3
      [] b \in 240..244   -> 4
      [] OTHER            -> 0

IsCont(b) == b \in 128..191

\* The (lead, second byte) pairs a 3-byte and a 4-byte character allow.
Second3(b, c) ==
    \/ b = 224 /\ c \in 160..191
    \/ b \in 225..236 /\ c \in 128..191
    \/ b = 237 /\ c \in 128..159
    \/ b \in 238..239 /\ c \in 128..191

Second4(b, c) ==
    \/ b = 240 /\ c \in 144..191
    \/ b \in 241..243 /\ c \in 128..191
    \/ b = 244 /\ c \in 128..143

\* One character of the decoder, from 1-based position i of s: whether a
\* whole valid character starts there, and the position after the bytes the
\* decoder looked at and accepted.
Utf8Step(s, i) ==
    LET b      == s[i]
        Get(j) == IF j <= Len(s) THEN s[j] ELSE 0
        w      == Utf8CharWidth(b)
    IN  CASE w = 1 -> [ok |-> TRUE, next |-> i + 1]
          [] w = 2 -> IF IsCont(Get(i + 1)) THEN [ok |-> TRUE, next |-> i + 2]
                                            ELSE [ok |-> FALSE, next |-> i + 1]
          [] w = 3 -> IF ~Second3(b, Get(i + 1)) THEN [ok |-> FALSE, next |-> i + 1]
                      ELSE IF ~IsCont(Get(i + 2)) THEN [ok |-> FALSE, next |-> i + 2]
                      ELSE [ok |-> TRUE, next |-> i + 3]
          [] w = 4 -> IF ~Second4(b, Get(i + 1)) THEN [ok |-> FALSE, next |-> i + 1]
                      ELSE IF ~IsCont(Get(i + 2)) THEN [ok |-> FALSE, next |-> i + 2]
                      ELSE IF ~IsCont(Get(i + 3)) THEN [ok |-> FALSE, next |-> i + 3]
                      ELSE [ok |-> TRUE, next |-> i + 4]
          [] OTHER -> [ok |-> FALSE, next |-> i + 1]

\* The number of leading bytes of s, from position i on, that are whole
\* valid characters (Utf8Error::valid_up_to), as a 0-based end index.
RECURSIVE ValidUpTo(_, _)
ValidUpTo(s, i) ==
    IF i > Len(s) THEN Len(s)
    ELSE LET st == Utf8Step(s, i)
         IN  IF st.ok THEN ValidUpTo(s, st.next) ELSE i - 1

\* From<Utf8Error> for Error: the decode error, kept as it is.
ErrorFromUtf8(e) == [kind |-> "Utf8Error", valid_up_to |-> e]

\* From<io::Error> for Error: the OS failure, kept as it is.
ErrorFromIo(e) == [kind |-> "Io", os |-> e]

\* str::from_utf8(bytes): the same bytes as a str, or the decode error.
FromUtf8(bytes) ==
    LET n == ValidUpTo(bytes, 1)
    IN  IF n = Len(bytes) THEN Ok(bytes) ELSE Err(n)

\* String::from_utf8_lossy: valid characters are copied, each maximal
\* rejected run becomes U+FFFD (0xEF 0xBF 0xBD).
RECURSIVE FromUtf8Lossy(_, _)
FromUtf8Lossy(s, i) ==
    IF i > Len(s) THEN <<>>
    ELSE LET st == Utf8Step(s, i)
         IN  (IF st.ok THEN SubSeq(s, i, st.next - 1) ELSE <<239, 191, 189>>)
               \o FromUtf8Lossy(s, st.next)

(***************************************************************************)
(* str_from_u8                                                             *)
(***************************************************************************)
NotWritten == [tag |-> "NotWritten"]

\* buf.iter().position(|&c| c == b'\0'): the 0-based index of the first NUL.
Position_Last(buf) ==
    LET nuls == {i \in 1..Len(buf) : buf[i] = 0}
    IN  IF nuls = {} THEN None
        ELSE Some((CHOOSE i \in nuls : \A j \in nuls : j <= i) - 1)

Position(buf) ==
    LET nuls == {i \in 1..Len(buf) : buf[i] = 0}
    IN  IF nuls = {} THEN None
        ELSE Some((CHOOSE i \in nuls : \A j \in nuls : i <= j) - 1)

\* .unwrap_or(buf.len())
FirstNulIdx_PastEnd(buf) ==
    LET p == Position(buf) IN IF p.tag = "Some" THEN p.val ELSE Len(buf) + 1

FirstNulIdx(buf) ==
    LET p == Position(buf) IN IF p.tag = "Some" THEN p.val ELSE Len(buf)

\* buf.get(a..b): the bytes at 0-based indices a..b-1, or None when the
\* range does not lie in the buffer.
SliceGet_Inclusive(buf, a, b) ==
    IF a <= b + 1 /\ b + 1 <= Len(buf) THEN Some(SubSeq(buf, a + 1, b + 1))
    ELSE IF a <= b /\ b <= Len(buf) THEN Some(SubSeq(buf, a + 1, b))
    ELSE None

SliceGet(buf, a, b) ==
    IF a <= b /\ b <= Len(buf) THEN Some(SubSeq(buf, a + 1, b)) ELSE None

\* str_from_u8(buf)
StrFromU8(buf) ==
    LET first_nul_idx == FirstNulIdx(buf)
        bytes         == SliceGet(buf, 0, first_nul_idx)
    IN  IF bytes.tag = "None" THEN Err(Error("StringFromBytes"))
        ELSE LET r == FromUtf8(bytes.val)
             IN  IF r.tag = "Ok" THEN r ELSE Err(ErrorFromUtf8(r.err))

\* Rust strings of at most n bytes: the valid UTF-8 byte sequences.  U+0000
\* (the byte 0) is a character like any other.
Strings(n) == {s \in SeqsUpTo(ByteVals, n) : ValidUpTo(s, 1) = Len(s)}

\* The caller hands str_from_u8 any buffer.
StrCall ==
    /\ active = "none"
    /\ str_pc = "idle"
    /\ \E b \in SeqsUpTo(ByteVals, MaxLen) : str_buf' = b
    /\ str_written' = NotWritten
    /\ str_pc' = "called"
    /\ active' = "str_from_u8"
    /\ UNCHANGED str_ret
    /\ UNCHANGED <<pgVars, fileVars, mbVars, userVars, pageVars>>

\* The caller takes a buffer of some capacity holding anything, writes a
\* string shorter than the capacity and a NUL at its start, and hands it over.
StrCallWritten ==
    /\ active = "none"
    /\ str_pc = "idle"
    /\ \E cap \in 1..MaxLen :
         \E S \in Strings(cap - 1) :
           \E rest \in SeqsOfLen(ByteVals, cap - Len(S) - 1) :
             /\ str_buf' = S \o <<0>> \o rest
             /\ str_written' = Some(S)
    /\ str_pc' = "called"
    /\ active' = "str_from_u8"
    /\ UNCHANGED str_ret
    /\ UNCHANGED <<pgVars, fileVars, mbVars, userVars, pageVars>>

\* The body of str_from_u8.
StrDecode ==
    /\ str_pc = "called"
    /\ str_ret' = StrFromU8(str_buf)
    /\ str_pc' = "done"
    /\ UNCHANGED <<active, str_buf, str_written>>
    /\ UNCHANGED <<pgVars, fileVars, mbVars, userVars, pageVars>>

\* The caller takes the result.
StrTake ==
    /\ str_pc = "done"
    /\ str_pc' = "idle"
    /\ str_buf' = <<>>
    /\ str_written' = NotWritten
    /\ str_ret' = NoRet
    /\ active' = "none"
    /\ UNCHANGED <<pgVars, fileVars, mbVars, userVars, pageVars>>

StrInit ==
    /\ str_pc = "idle"
    /\ str_buf = <<>>
    /\ str_written = NotWritten
    /\ str_ret = NoRet

(***************************************************************************)
(* file_from_buffer                                                        *)
(***************************************************************************)
\* The paths that may name something in the file system; every other path,
\* the empty one included, names nothing.
KnownPaths == {<<65>>, <<195, 169>>}
FileSystems == [KnownPaths -> {"file", "denied", "absent"}]

\* File::open(path) against the file system f.
FileOpenIn(f, path) ==
    IF path \in DOMAIN f /\ f[path] = "file" THEN Ok([file |-> path])
    ELSE IF path \in DOMAIN f /\ f[path] = "denied" THEN Err("PermissionDenied")
    ELSE Err("NotFound")

\* The caller hands file_from_buffer any buffer; the file system is in any state.
FileCall ==
    /\ active = "none"
    /\ file_pc = "idle"
    /\ \E b \in SeqsUpTo(ByteVals, MaxLen) : file_buf' = b
    /\ \E f \in FileSystems : fs' = f
    /\ file_pc' = "called"
    /\ active' = "file_from_buffer"
    /\ UNCHANGED <<file_path, file_ret, file_opens>>
    /\ UNCHANGED <<pgVars, strVars, mbVars, userVars, pageVars>>

\* A variant that goes on with an empty path when the decoding fails.
FileDecode_OpensAnyway ==
    /\ file_pc = "called"
    /\ LET r == StrFromU8(file_buf)
       IN  /\ file_path' = IF r.tag = "Ok" THEN r.val ELSE <<>>
           /\ file_pc' = "opening"
           /\ file_ret' = file_ret
    /\ UNCHANGED <<active, file_buf, fs, file_opens>>
    /\ UNCHANGED <<pgVars, strVars, mbVars, userVars, pageVars>>

\* let path = str_from_u8(buf)?;
FileDecode ==
    /\ file_pc = "called"
    /\ LET r == StrFromU8(file_buf)
       IN  IF r.tag = "Ok"
             THEN /\ file_path' = r.val
                  /\ file_pc' = "opening"
                  /\ file_ret' = file_ret
             ELSE /\ file_ret' = r
                  /\ file_pc' = "done"
                  /\ file_path' = file_path
    /\ UNCHANGED <<active, file_buf, fs, file_opens>>
    /\ UNCHANGED <<pgVars, strVars, mbVars, userVars, pageVars>>

\* let file = File::open(&path)?;  Ok(file)
FileOpen ==
    /\ file_pc = "opening"
    /\ file_opens' = file_opens \cup {file_path}
    /\ LET r == FileOpenIn(fs, file_path)
       IN  file_ret' = IF r.tag = "Ok" THEN r ELSE Err(ErrorFromIo(r.err))
    /\ file_pc' = "done"
    /\ UNCHANGED <<active, file_buf, file_path, fs>>
    /\ UNCHANGED <<pgVars, strVars, mbVars, userVars, pageVars>>

\* The caller takes the result.
FileTake ==
    /\ file_pc = "done"
    /\ file_pc' = "idle"
    /\ file_buf' = <<>>
    /\ file_path' = <<>>
    /\ file_ret' = NoRet
    /\ fs' = [p \in KnownPaths |-> "absent"]
    /\ file_opens' = {}
    /\ active' = "none"
    /\ UNCHANGED <<pgVars, strVars, mbVars, userVars, pageVars>>

FileInit ==
    /\ file_pc = "idle"
    /\ file_buf = <<>>
    /\ file_path = <<>>
    /\ file_ret = NoRet
    /\ fs = [p \in KnownPaths |-> "absent"]
    /\ file_opens = {}

(***************************************************************************)
(* Unsigned integers wider than the checker's own: little-endian sequences *)
(* of bytes, a u64 being 8 of them.                                        *)
(***************************************************************************)
Zeros(n) == [i \in 1..n |-> 0]
Ones(n)  == [i \in 1..n |-> 255]

\* The w-byte little-endian form of a natural number below 2^31.
RECURSIVE LE(_, _)
LE(n, w) == IF w = 0 THEN <<>> ELSE <<n % 256>> \o LE(n \div 256, w - 1)

\* x with zero bytes appended up to w bytes (a widening of an unsigned value).
ZeroExtend(x, w) == x \o Zeros(w - Len(x))

\* Into<u64>: the argument's own unsigned type widened to 8 bytes.
IntoU64(x) == ZeroExtend(x, 8)

\* x / d for a divisor d below 2^23: long division from the top byte down,
\* r being the remainder carried in.  The quotient has as many bytes as x.
RECURSIVE DivFrom(_, _, _, _)
DivFrom(x, d, k, r) ==
    IF k = 0 THEN <<>>
    ELSE LET cur == r * 256 + x[k]
         IN  <<cur \div d>> \o DivFrom(x, d, k - 1, cur % d)

Reverse(x) == [i \in 1..Len(x) |-> x[Len(x) + 1 - i]]

DivSmall(x, d) == Reverse(DivFrom(x, d, Len(x), 0))

\* x % d, as a number.
RECURSIVE RemFrom(_, _, _, _)
RemFrom(x, d, k, r) ==
    IF k = 0 THEN r ELSE RemFrom(x, d, k - 1, (r * 256 + x[k]) % d)

RemSmall(x, d) == RemFrom(x, d, Len(x), 0)

\* The sum of the byte products x[i] * y[j] of column k (i + j = k + 1).
RECURSIVE ColumnSum(_, _, _, _)
ColumnSum(x, y, k, i) ==
    IF i > Len(x) THEN 0
    ELSE (IF k + 1 - i \in 1..Len(y) THEN x[i] * y[k + 1 - i] ELSE 0)
           + ColumnSum(x, y, k, i + 1)

\* The full product x * y, Len(x) + Len(y) bytes: columns k.. with the carry.
RECURSIVE MulFrom(_, _, _, _)
MulFrom(x, y, k, carry) ==
    IF k > Len(x) + Len(y) THEN <<>>
    ELSE LET t == ColumnSum(x, y, k, 1) + carry
         IN  <<t % 256>> \o MulFrom(x, y, k + 1, t \div 256)

MulFull(x, y) == MulFrom(x, y, 1, 0)

\* Whether the number x is zero.
IsZero(x) == \A i \in 1..Len(x) : x[i] = 0

(***************************************************************************)
(* bytes_to_megabytes                                                      *)
(***************************************************************************)
B_TO_MB == 1000000

\* The overflow panic of a build with overflow checks.
Panic == [tag |-> "Panic", msg |-> "attempt to multiply with overflow"]

\* a * b on u64: the product when it fits; otherwise the panic in a build
\* with overflow checks and the product modulo 2^64 in one without.
MulU64(a, b, checked) ==
    LET full == MulFull(a, b)
        low  == SubSeq(full, 1, 8)
        high == SubSeq(full, 9, 16)
    IN  IF IsZero(high) THEN Ok(low)
        ELSE IF checked THEN Panic
        ELSE Ok(low)

\* bytes.into() / B_TO_MB * mem_unit.into()
BytesToMegabytes(bytes, mem_unit, checked) ==
    MulU64(DivSmall(IntoU64(bytes), B_TO_MB), IntoU64(mem_unit), checked)

\* The arguments the caller passes, each in its own unsigned type.
MbByteCounts ==
    { LE(0, 4), LE(999999, 4), LE(1000000, 4), LE(1500000, 4), LE(2500000, 8),
      LE(2000000000, 8), Ones(4), <<0, 0, 0, 0, 0, 1, 0, 0>>, Ones(8) }
MbUnits ==
    { LE(0, 1), LE(1, 1), LE(3, 2), LE(4096, 4), Ones(4), <<0, 0, 0, 0, 0, 0, 1, 0>>,
      Ones(8) }

\* The caller calls bytes_to_megabytes(bytes, mem_unit) in some build.
MbCall ==
    /\ active = "none"
    /\ mb_pc = "idle"
    /\ \E b \in MbByteCounts : mb_bytes' = b
    /\ \E m \in MbUnits : mb_unit' = m
    /\ \E c \in BOOLEAN : mb_checks' = c
    /\ mb_pc' = "called"
    /\ active' = "bytes_to_megabytes"
    /\ UNCHANGED mb_ret
    /\ UNCHANGED <<pgVars, strVars, fileVars, userVars, pageVars>>

\* The body of bytes_to_megabytes.
MbCompute ==
    /\ mb_pc = "called"
    /\ mb_ret' = BytesToMegabytes(mb_bytes, mb_unit, mb_checks)
    /\ mb_pc' = "done"
    /\ UNCHANGED <<active, mb_bytes, mb_unit, mb_checks>>
    /\ UNCHANGED <<pgVars, strVars, fileVars, userVars, pageVars>>

\* The caller takes the result (or the thread has unwound).
MbTake ==
    /\ mb_pc = "done"
    /\ mb_pc' = "idle"
    /\ mb_bytes' = <<>>
    /\ mb_unit' = <<>>
    /\ mb_checks' = FALSE
    /\ mb_ret' = NoRet
    /\ active' = "none"
    /\ UNCHANGED <<pgVars, strVars, fileVars, userVars, pageVars>>

MbInit ==
    /\ mb_pc = "idle"
    /\ mb_bytes = <<>>
    /\ mb_unit = <<>>
    /\ mb_checks = FALSE
    /\ mb_ret = NoRet

(***************************************************************************)
(* get_username                                                            *)
(***************************************************************************)
\* let mut buf = [0; 2048];
BufLen == 2048
ERANGE == 34
EIO    == 5

NullPtr     == [tag |-> "Null"]
Dangling    == [tag |-> "Dangling"]
PtrTo(mem)  == [tag |-> "Ptr", mem |-> mem]

\* What the user database holds for the effective uid: an entry (its login
\* name and the bytes its strings need in the caller's buffer), no entry, or
\* a failure of the lookup itself.
NameBytes == ByteVals \ {0}
UserDbAnswers ==
    { [kind |-> "entry", name |-> n, size |-> z] :
        n \in SeqsUpTo(NameBytes, MaxName), z \in {64, BufLen, BufLen + 1} }
    \cup { [kind |-> "absent"], [kind |-> "error", code |-> EIO] }

\* getpwuid_r(uid, &mut passwd, buf, buflen, &mut result): the return code,
\* `result`, and what passwd.pw_name points at afterwards.  passwd starts
\* zeroed; a lookup that fails leaves pw_name null or pointing nowhere useful.
GetpwuidR(db, buflen) ==
    IF db.kind = "entry" /\ db.size <= buflen
      THEN {[code |-> 0, result |-> "passwd", pw_name |-> PtrTo(db.name \o <<0>>)]}
    ELSE IF db.kind = "entry"
      THEN {[code |-> ERANGE, result |-> "null", pw_name |-> p] : p \in {NullPtr, Dangling}}
    ELSE IF db.kind = "absent"
      THEN {[code |-> 0, result |-> "null", pw_name |-> NullPtr]}
    ELSE {[code |-> db.code, result |-> "null", pw_name |-> p] : p \in {NullPtr, Dangling}}

\* CStr::from_ptr(p).to_bytes(): the bytes before the first NUL of the
\* memory p points at.  Reading through a null or dangling pointer is
\* undefined: any bytes may come out.
CStrBytes(p) ==
    IF p.tag = "Ptr"
      THEN {SubSeq(p.mem, 1, (CHOOSE i \in 1..Len(p.mem) :
                                 p.mem[i] = 0 /\ \A j \in 1..(i - 1) : p.mem[j] # 0) - 1)}
      ELSE SeqsUpTo(NameBytes, 1)

\* if getpwuid_r_code == 0 && !result.is_null()
LookupSucceeded_CodeOnly(code, result) == code = 0

LookupSucceeded(code, result) == code = 0 /\ result # "null"

\* The caller calls get_username(); the user database is in any state.
UserCall ==
    /\ active = "none"
    /\ user_pc = "idle"
    /\ \E d \in UserDbAnswers : user_db' = d
    /\ user_pc' = "called"
    /\ active' = "get_username"
    /\ UNCHANGED <<user_code, user_result, user_pw_name, user_ret, user_reads>>
    /\ UNCHANGED <<pgVars, strVars, fileVars, mbVars, pageVars>>

\* let getpwuid_r_code = unsafe { getpwuid_r(uid, &mut passwd, buf.., &mut result) };
UserQuery ==
    /\ user_pc = "called"
    /\ \E a \in GetpwuidR(user_db, BufLen) :
         /\ user_code' = a.code
         /\ user_result' = a.result
         /\ user_pw_name' = a.pw_name
    /\ user_pc' = "queried"
    /\ UNCHANGED <<active, user_db, user_ret, user_reads>>
    /\ UNCHANGED <<pgVars, strVars, fileVars, mbVars, pageVars>>

\* if code == 0 && !result.is_null() { return Some(lossy(CStr(pw_name))) }  None
UserReturn ==
    /\ user_pc = "queried"
    /\ IF LookupSucceeded(user_code, user_result)
         THEN /\ user_reads' = user_reads \cup {user_pw_name}
              /\ \E bytes \in CStrBytes(user_pw_name) :
                    user_ret' = Some(FromUtf8Lossy(bytes, 1))
         ELSE /\ user_ret' = None
              /\ user_reads' = user_reads
    /\ user_pc' = "done"
    /\ UNCHANGED <<active, user_db, user_code, user_result, user_pw_name>>
    /\ UNCHANGED <<pgVars, strVars, fileVars, mbVars, pageVars>>

\* The caller takes the result.
UserTake ==
    /\ user_pc = "done"
    /\ user_pc' = "idle"
    /\ user_db' = [kind |-> "absent"]
    /\ user_code' = 0
    /\ user_result' = "null"
    /\ user_pw_name' = NullPtr
    /\ user_ret' = NoRet
    /\ user_reads' = {}
    /\ active' = "none"
    /\ UNCHANGED <<pgVars, strVars, fileVars, mbVars, pageVars>>

UserInit ==
    /\ user_pc = "idle"
    /\ user_db = [kind |-> "absent"]
    /\ user_code = 0
    /\ user_result = "null"
    /\ user_pw_name = NullPtr
    /\ user_ret = NoRet
    /\ user_reads = {}

(***************************************************************************)
(* Signed integers: two's complement, little-endian sequences of bytes.    *)
(* c_long is 4 or 8 bytes; i64 is 8.                                       *)
(***************************************************************************)
IsNegative(x) == x[Len(x)] >= 128

\* The w-byte two's complement form of an integer of magnitude below 2^31.
SignedLE(v, w) ==
    IF v >= 0 THEN LE(v, w)
    ELSE [i \in 1..w |-> 255 - LE(-v - 1, w)[i]]

\* x + 1 on Len(x) bytes, from byte k on, with the carry.
RECURSIVE IncFrom(_, _, _)
IncFrom(x, k, carry) ==
    IF k > Len(x) THEN <<>>
    ELSE LET t == x[k] + carry
         IN  <<t % 256>> \o IncFrom(x, k + 1, t \div 256)

\* x without its high zero bytes.
RECURSIVE Trim(_)
Trim(x) ==
    IF x = <<>> THEN <<>>
    ELSE IF x[Len(x)] = 0 THEN Trim(SubSeq(x, 1, Len(x) - 1))
    ELSE x

\* The integer a two's complement byte sequence stands for, whatever its
\* width: its sign and its magnitude (as a number without high zero bytes).
SignedValue(x) ==
    IF IsNegative(x)
      THEN [neg |-> TRUE,
            mag |-> Trim(IncFrom([i \in 1..Len(x) |-> 255 - x[i]], 1, 1))]
      ELSE [neg |-> FALSE, mag |-> Trim(x)]

MinusOne == [neg |-> TRUE, mag |-> <<1>>]

\* From<c_long> for i64 (.into()): sign extension to 8 bytes; nothing to do
\* where c_long is i64 already.
IntoI64(x) ==
    x \o [i \in 1..(8 - Len(x)) |-> IF IsNegative(x) THEN 255 ELSE 0]

(***************************************************************************)
(* page_size                                                               *)
(***************************************************************************)
\* if page_size == -1: the comparison at c_long's width.
IsMinusOne_Negative(x) == IsNegative(x)

IsMinusOne(x) == x = Ones(Len(x))

\* What sysconf(_SC_PAGESIZE) may return on a platform whose c_long has w
\* bytes: the sentinel, other negatives, 0, page sizes, the extremes.
SysconfAnswers(w) ==
    { SignedLE(v, w) : v \in {-4096, -2, -1, 0, 1, 4096, 16384, 65536} }
    \cup { Ones(w - 1) \o <<127>>, Zeros(w - 1) \o <<128>>, Zeros(w - 1) \o <<1>> }

NoPrev == [tag |-> "NoPrev"]

\* page_size() with the OS answering raw.
PageSizeOf(raw) ==
    IF IsMinusOne(raw) THEN Err(Error("SysConfFailed")) ELSE Ok(IntoI64(raw))

\* The caller calls page_size(), on a platform whose c_long has 4 or 8 bytes
\* (the same platform for every call of one run).
PageCall ==
    /\ active \in {"none", "page_size"}
    /\ page_pc = "idle"
    /\ IF active = "none" THEN \E w \in {4, 8} : page_width' = w
                          ELSE page_width' = page_width
    /\ page_pc' = "called"
    /\ active' = "page_size"
    /\ UNCHANGED <<page_size_raw, page_ret, page_prev>>
    /\ UNCHANGED <<pgVars, strVars, fileVars, mbVars, userVars>>

\* let page_size = unsafe { sysconf(_SC_PAGESIZE) };
PageQuery ==
    /\ page_pc = "called"
    /\ \E a \in SysconfAnswers(page_width) : page_size_raw' = a
    /\ page_pc' = "queried"
    /\ UNCHANGED <<active, page_width, page_ret, page_prev>>
    /\ UNCHANGED <<pgVars, strVars, fileVars, mbVars, userVars>>

\* if page_size == -1 { return Err(SysConfFailed) }  Ok(page_size.into())
PageReturn ==
    /\ page_pc = "queried"
    /\ page_ret' = PageSizeOf(page_size_raw)
    /\ page_pc' = "done"
    /\ UNCHANGED <<active, page_width, page_size_raw, page_prev>>
    /\ UNCHANGED <<pgVars, strVars, fileVars, mbVars, userVars>>

\* The caller takes the result and remembers it beside the OS's answer.
PageTake ==
    /\ page_pc = "done"
    /\ page_prev' = [raw |-> page_size_raw, ret |-> page_ret]
    /\ page_pc' = "idle"
    /\ page_size_raw' = <<>>
    /\ page_ret' = NoRet
    /\ UNCHANGED <<active, page_width>>
    /\ UNCHANGED <<pgVars, strVars, fileVars, mbVars, userVars>>

\* The caller is done with page sizes.
PageLeave ==
    /\ active = "page_size"
    /\ page_pc = "idle"
    /\ page_prev' = NoPrev
    /\ page_width' = 8
    /\ active' = "none"
    /\ UNCHANGED <<page_pc, page_size_raw, page_ret>>
    /\ UNCHANGED <<pgVars, strVars, fileVars, mbVars, userVars>>

PageInit ==
    /\ page_pc = "idle"
    /\ page_width = 8
    /\ page_size_raw = <<>>
    /\ page_ret = NoRet
    /\ page_prev = NoPrev

(***************************************************************************)
(* The program.                                                            *)
(***************************************************************************)
Init ==
    /\ active = "none"
    /\ PgInit
    /\ StrInit
    /\ FileInit
    /\ MbInit
    /\ UserInit
    /\ PageInit

Next ==
    \/ \E t \in Threads : PgCall(t)
    \/ \E t \in Threads : PgLookup(t)
    \/ \E t \in Threads : PgReturn(t)
    \/ \E t \in Threads : PgTake(t)
    \/ PgJoin
    \/ StrCall
    \/ StrCallWritten
    \/ StrDecode
    \/ StrTake
    \/ FileCall
    \/ FileDecode
    \/ FileOpen
    \/ FileTake
    \/ MbCall
    \/ MbCompute
    \/ MbTake
    \/ UserCall
    \/ UserQuery
    \/ UserReturn
    \/ UserTake
    \/ PageCall
    \/ PageQuery
    \/ PageReturn
    \/ PageTake
    \/ PageLeave

Spec == Init /\ [][Next]_vars

(***************************************************************************)
(* The claims.                                                             *)
(***************************************************************************)

\* C1: get_process_group returns an error exactly when getpgid returned -1;
\* the error kind is then fixed by the code the lookup left in errno (EPERM:
\* NoPermission, ESRCH: ProcessGroupNotFound, EINVAL: InvalidPidSupplied, any
\* other code: UnknownGetpguid); any other return value comes back as Ok of
\* that value.
C1_ErrorExactlyOnSentinel ==
    \A t \in Threads :
      pg_pc[t] = "done" =>
        /\ (pg_ret[t].tag = "Err") <=> (pg_pgid[t] = -1)
        /\ pg_pgid[t] # -1 => pg_ret[t] = Ok(pg_pgid[t])
        /\ pg_pgid[t] = -1 =>
             LET e == pg_own_errno[t].val
             IN  /\ e = EPERM => pg_ret[t].err = Error("NoPermission")
                 /\ e = ESRCH => pg_ret[t].err = Error("ProcessGroupNotFound")
                 /\ e = EINVAL => pg_ret[t].err = Error("InvalidPidSupplied")
                 /\ e \notin {EPERM, ESRCH, EINVAL} =>
                      pg_ret[t].err = Error("UnknownGetpguid")

\* C1 witness: a failed lookup with an unnamed code came back as the
\* catch-all kind while another thread's lookup returned a negative group id
\* other than the sentinel as a success.
C1_Witness ==
    /\ pg_pc[1] = "done" /\ pg_pgid[1] = -1 /\ pg_own_errno[1] = Some(4)
    /\ pg_ret[1] = Err(Error("UnknownGetpguid"))
    /\ pg_pc[2] = "done" /\ pg_ret[2] = Ok(-2)

\* C9: between a thread's failing lookup and its read of errno the thread's
\* slot still holds the code of its own lookup, whatever other threads do in
\* between, and the kind it returns is the mapping of that code.
C9_OwnErrnoMapped ==
    \A t \in Threads :
      /\ (pg_pc[t] = "looked" /\ pg_pgid[t] = -1) => errno[t] = pg_own_errno[t].val
      /\ (pg_pc[t] = "done" /\ pg_pgid[t] = -1) =>
            pg_ret[t] = Err(ErrorKindOf(pg_own_errno[t].val))

\* C9 witness: thread 1 returned the kind of its own code (EPERM) while
\* thread 2 stands between its own failing lookup, which set ESRCH, and its
\* read of errno.
C9_Witness ==
    /\ pg_pc[1] = "done" /\ pg_own_errno[1] = Some(EPERM)
    /\ pg_ret[1] = Err(Error("NoPermission"))
    /\ pg_pc[2] = "looked" /\ pg_pgid[2] = -1 /\ pg_own_errno[2] = Some(ESRCH)

\* The longest prefix of buf that holds no NUL: it ends at the end of the
\* buffer or right before a NUL.
PrefixBeforeNul(buf) ==
    CHOOSE p \in {SubSeq(buf, 1, n) : n \in 0..Len(buf)} :
      /\ \A i \in 1..Len(p) : p[i] # 0
      /\ Len(p) = Len(buf) \/ buf[Len(p) + 1] = 0

\* C2: str_from_u8 decodes exactly the bytes before the first NUL (the whole
\* buffer when it has none): it succeeds exactly when they are valid UTF-8,
\* and then returns those bytes, at most Len(buf) of them and none of them NUL.
C2_DecodesPrefixBeforeNul ==
    str_pc = "done" =>
      LET prefix == PrefixBeforeNul(str_buf)
      IN  /\ (str_ret.tag = "Ok") <=> (ValidUpTo(prefix, 1) = Len(prefix))
          /\ str_ret.tag \in {"Ok", "Err"}
          /\ str_ret.tag = "Ok" =>
               /\ str_ret.val = prefix
               /\ Len(str_ret.val) <= Len(str_buf)
               /\ \A i \in 1..Len(str_ret.val) : str_ret.val[i] # 0

\* C2 witness: a buffer with an invalid byte behind its first NUL decoded
\* to the bytes before that NUL.
C2_Witness ==
    /\ str_pc = "done"
    /\ str_buf = <<65, 0, 255>>
    /\ str_ret = Ok(<<65>>)

\* C3 as stated: whatever string S (shorter than the buffer) was written
\* into the buffer with a NUL after it, str_from_u8 returns exactly S.
C3_RoundTripAnyString ==
    (str_pc = "done" /\ str_written.tag = "Some") => str_ret = Ok(str_written.val)

\* C3 amended: for a string S that holds no NUL character (and is shorter
\* than the buffer), written into the buffer with a NUL after it and
\* anything behind that, str_from_u8 returns exactly S.
C3_RoundTripNulFree ==
    (/\ str_pc = "done"
     /\ str_written.tag = "Some"
     /\ \A i \in 1..Len(str_written.val) : str_written.val[i] # 0)
      => str_ret = Ok(str_written.val)

\* C3 witness: "A" written with its NUL into a 3-byte buffer whose last byte
\* is another NUL came back as "A".
C3_Witness ==
    /\ str_pc = "done"
    /\ str_written = Some(<<65>>)
    /\ str_buf = <<65, 0, 0>>
    /\ str_ret = Ok(<<65>>)

\* C10: the slice end str_from_u8 computes always lies in 0..Len(buf), so
\* it never returns StringFromBytes: it fails only when the bytes before the
\* first NUL are not valid UTF-8.
C10_NeverStringFromBytes ==
    /\ str_pc \in {"called", "done"} => FirstNulIdx(str_buf) \in 0..Len(str_buf)
    /\ str_pc = "done" =>
         /\ str_ret.tag = "Err" => str_ret.err # Error("StringFromBytes")
         /\ str_ret.tag = "Err" =>
              LET prefix == PrefixBeforeNul(str_buf)
              IN  ValidUpTo(prefix, 1) < Len(prefix)

\* C10 witness: a full buffer without any NUL, where the slice end is the
\* buffer's length, was decoded.
C10_Witness ==
    /\ str_pc = "done"
    /\ Len(str_buf) = MaxLen
    /\ \A i \in 1..Len(str_buf) : str_buf[i] # 0
    /\ str_ret.tag = "Ok"

\* What the file system holds at a path.
StatusIn(f, path) == IF path \in DOMAIN f THEN f[path] ELSE "absent"

\* C6: file_from_buffer opens a file only after the path decoded: a decode
\* failure is returned with no open attempted; otherwise exactly the decoded
\* path is opened, and an absent path gives the OS's not-found failure, a
\* forbidden one its permission failure, and only a path that opens gives a
\* file handle.
C6_DecodeThenOpen ==
    LET d == StrFromU8(file_buf)
    IN  /\ file_pc = "opening" => (d = Ok(file_path) /\ file_opens = {})
        /\ file_pc = "done" =>
             IF d.tag = "Err"
               THEN file_ret = d /\ file_opens = {}
               ELSE /\ file_opens = {d.val}
                    /\ StatusIn(fs, d.val) = "absent" =>
                         file_ret = Err([kind |-> "Io", os |-> "NotFound"])
                    /\ StatusIn(fs, d.val) = "denied" =>
                         file_ret = Err([kind |-> "Io", os |-> "PermissionDenied"])
                    /\ StatusIn(fs, d.val) = "file" => file_ret = Ok([file |-> d.val])
                    /\ file_ret.tag = "Ok" => StatusIn(fs, d.val) = "file"

\* C6 witness: a buffer holding the path "A" (and an invalid byte behind
\* its NUL), with no file "A", gave the OS's not-found failure.
C6_Witness ==
    /\ file_pc = "done"
    /\ file_buf = <<65, 0, 255>>
    /\ fs[<<65>>] = "absent"
    /\ file_ret = Err([kind |-> "Io", os |-> "NotFound"])

\* C7: get_username returns a name exactly when getpwuid_r returned 0 with a
\* non-null entry, and absence otherwise: for a uid without an entry (0 and
\* null) and for an entry too big for the 2048-byte buffer (a non-zero code);
\* pw_name is dereferenced only in the success case, where it points at the
\* entry's name.
C7_NameIffLookupSucceeded ==
    /\ user_pc = "done" =>
         /\ user_ret.tag \in {"Some", "None"}
         /\ (user_ret.tag = "Some") <=> (user_code = 0 /\ user_result # "null")
         /\ user_db.kind = "absent" => (user_code = 0 /\ user_ret = None)
         /\ (user_db.kind = "entry" /\ user_db.size > 2048) =>
              (user_code # 0 /\ user_ret = None)
         /\ user_db.kind = "error" => user_ret = None
         /\ (user_db.kind = "entry" /\ user_db.size <= 2048) =>
              user_ret = Some(FromUtf8Lossy(user_db.name, 1))
    /\ \A p \in user_reads :
         /\ p.tag = "Ptr"
         /\ user_code = 0 /\ user_result # "null"

\* C7 witness: an entry that needs 2049 bytes made the lookup fail, and
\* get_username returned absence without touching pw_name.
C7_Witness ==
    /\ user_pc = "done"
    /\ user_db.kind = "entry" /\ user_db.size = 2049
    /\ user_code # 0
    /\ user_pw_name = Dangling
    /\ user_ret = None
    /\ user_reads = {}

\* C8: page_size returns SysConfFailed exactly when sysconf returned -1;
\* any other answer comes back as Ok of the same integer on 8 bytes; and a
\* call that gets the same answer as the call before gives the same result.
C8_SentinelOrWidened ==
    page_pc = "done" =>
      /\ (page_ret = Err(Error("SysConfFailed"))) <=> (SignedValue(page_size_raw) = MinusOne)
      /\ SignedValue(page_size_raw) # MinusOne =>
           /\ page_ret.tag = "Ok"
           /\ Len(page_ret.val) = 8
           /\ SignedValue(page_ret.val) = SignedValue(page_size_raw)
      /\ (page_prev # NoPrev /\ page_prev.raw = page_size_raw) => page_prev.ret = page_ret

\* C8 witness: on a platform with a 4-byte c_long, sysconf answered -4096
\* twice in a row and page_size returned Ok(-4096) as an i64 both times.
C8_Witness ==
    /\ page_pc = "done"
    /\ page_width = 4
    /\ page_size_raw = <<0, 240, 255, 255>>
    /\ page_ret = Ok(<<0, 240, 255, 255, 255, 255, 255, 255>>)
    /\ page_prev # NoPrev
    /\ page_prev.raw = page_size_raw

\* floor(bytes / 1_000_000) * mem_unit as a number of 16 bytes.
MbExactProduct == MulFull(DivSmall(IntoU64(mb_bytes), B_TO_MB), IntoU64(mb_unit))

\* Whether the u64 product fits in 64 bits.
MbFits == IsZero(SubSeq(MbExactProduct, 9, 16))

\* C4: bytes_to_megabytes returns floor(bytes / 1_000_000) * mem_unit in
\* the u64 domain (read here in the widest sense: modulo 2^64) for every
\* pair of arguments; (2_500_000, 1) gives 2, (1_000_000, 3) gives 3,
\* (999_999, 1) gives 0; and whenever bytes is no multiple of a million and
\* remainder * mem_unit reaches a million, the result is not
\* floor(bytes * mem_unit / 1_000_000).
C4_DivideThenMultiply ==
    mb_pc = "done" =>
      LET b == IntoU64(mb_bytes)
          m == IntoU64(mb_unit)
          r == RemSmall(b, B_TO_MB)
      IN  /\ mb_ret = Ok(SubSeq(MbExactProduct, 1, 8))
          /\ (b = LE(2500000, 8) /\ m = LE(1, 8)) => mb_ret = Ok(LE(2, 8))
          /\ (b = LE(1000000, 8) /\ m = LE(3, 8)) => mb_ret = Ok(LE(3, 8))
          /\ (b = LE(999999, 8) /\ m = LE(1, 8)) => mb_ret = Ok(LE(0, 8))
          /\ (r # 0 /\ ~IsZero(DivSmall(MulFull(LE(r, 4), m), B_TO_MB))) =>
                ZeroExtend(mb_ret.val, 16) # DivSmall(MulFull(b, m), B_TO_MB)

\* The same statement for the arguments whose product fits in 64 bits.
C4_HoldsWhenProductFits ==
    (mb_pc = "done" /\ MbFits) => C4_DivideThenMultiply

\* C5: bytes_to_megabytes has no failure path: for every pair of arguments
\* floor(bytes / 1_000_000) * mem_unit fits in 64 bits, and the call returns
\* that product without overflow, wrap or abort.
C5_NeverOverflows ==
    mb_pc = "done" =>
      /\ MbFits
      /\ mb_ret.tag = "Ok"
      /\ ZeroExtend(mb_ret.val, 16) = MbExactProduct

\* The same statement for the arguments whose product fits in 64 bits.
C5_HoldsWhenProductFits ==
    (mb_pc = "done" /\ MbFits) =>
      (mb_ret.tag = "Ok" /\ ZeroExtend(mb_ret.val, 16) = MbExactProduct)

====
